---- MODULE Spec2Model ----
(***************************************************************************)
(* Token-bucket rate limiter of src/src/utils/rateLimiter.ts.              *)
(*                                                                         *)
(* Units.  Date.now() counts whole milliseconds.  The bucket balance is    *)
(* kept in thousandths of a token, so that                                 *)
(*     newTokens = (elapsedMs / 1000) * refillRate                         *)
(* is the integer elapsedMs * RefillRate: the arithmetic is exact.  The    *)
(* code computes in doubles; RoundSpec below lets the sum of line 33 come  *)
(* out one unit off either way, an error smaller than the refill of one    *)
(* millisecond, as the rounding error of a double is.                      *)
(*                                                                         *)
(* Time.  The code reads the clock only as Date.now() - this.lastRefill    *)
(* (line 27) and as the delay of a pending setTimeout (line 50), so the    *)
(* state keeps those differences: sinceRefill = Date.now() - lastRefill    *)
(* and timer[c] = milliseconds left before the timeout of call c is due.   *)
(* "lastRefill = now" reads sinceRefill = 0.  sinceRefill stops growing at  *)
(* FullAfterMs: from there on the refill of line 33 yields capacity.       *)
(***************************************************************************)
EXTENDS Integers, Sequences, FiniteSets, TLC

Capacity == 100
RefillRate == 10
Milli == 1000
DefaultWeight == 1

NumCallers == 2
MaxRetries == 2
MaxCalls == 2
MaxSkewMs == 3000
MaxIssued == 3

Callers == 1 .. NumCallers
Weights == {10, 50, Capacity, 150}
Steps == {1000, 5000}
LiveWeights == {50, Capacity, 150}
SeqWeights == {DefaultWeight, 10, 50, Capacity, 150}
SeqSteps == {250, 1000, 5000}
Gaps == {0, 1000}
Skews == {1000, 3000}
Roundings == {0 - 1, 0, 1}
RoundWeights == {10, 50, Capacity}
OrderWeights == {10, Capacity}
SignedWeights == {0 - 5, 0, Capacity}
Variants == {"RateLimiter", "NoOpRateLimiter"}
NoOpWeights == {0, DefaultWeight, 1000000}

CapacityMilli == Capacity * Milli
FullAfterMs == CapacityMilli \div RefillRate

Min(a, b) == IF a <= b THEN a ELSE b
Max(a, b) == IF a >= b THEN a ELSE b

VARIABLES
    tokens,       \* this.tokens, in thousandths of a token
    sinceRefill,  \* Date.now() - this.lastRefill, in ms
    pc,           \* per caller: "idle", "waiting" (timeout pending), "done" (promise resolved)
    weight,       \* per caller: the weight of its call in flight
    timer,        \* per caller: ms left until its timeout is due
    limiter,      \* the variant behind IRateLimiter: "RateLimiter" or "NoOpRateLimiter"
    accepting,    \* callers may still issue new calls
    slack,        \* what a bucket that was full at the start of the observed window would hold
    retries,      \* per caller: timeouts of its call that have fired, up to MaxRetries (sequential use)
    log,          \* weights of the calls issued so far (sequential use)
    credited,     \* refill credited so far, after clamping (sequential use)
    twin          \* a second RateLimiter instance given the same calls at the same times

coreVars == <<tokens, sinceRefill, pc, weight, timer>>
seqVars == <<retries, log, credited, twin>>
vars == <<tokens, sinceRefill, pc, weight, timer, limiter, accepting, slack,
          retries, log, credited, twin>>

----------------------------------------------------------------------------
(* The code, as functions of the bucket b = [tokens, sinceRefill].         *)

\* Variant: the elapsed milliseconds are not converted to seconds.
NewTokensNoDivide(elapsedMs) == elapsedMs * RefillRate * Milli

\* newTokens of lines 27-30, in thousandths of a token.
NewTokens(elapsedMs) == elapsedMs * RefillRate

\* Variant: the sum is not clamped to capacity.
refillNoClamp(b) ==
    LET newTokens == NewTokens(b.sinceRefill)
    IN  IF newTokens > 0
        THEN [tokens |-> b.tokens + newTokens, sinceRefill |-> 0]
        ELSE b

\* Variant: the refill replaces the balance instead of adding to it.
refillForgetsBalance(b) ==
    LET newTokens == NewTokens(b.sinceRefill)
    IN  IF newTokens > 0
        THEN [tokens |-> Min(CapacityMilli, newTokens), sinceRefill |-> 0]
        ELSE b

\* Variant: lastRefill is not advanced.
refillKeepsStamp(b) ==
    LET newTokens == NewTokens(b.sinceRefill)
    IN  IF newTokens > 0
        THEN [tokens |-> Min(CapacityMilli, b.tokens + newTokens),
              sinceRefill |-> b.sinceRefill]
        ELSE b

\* Variant: the refill is applied whatever the sign of the elapsed time.
refillUnguarded(b) ==
    [tokens |-> Min(CapacityMilli, b.tokens + NewTokens(b.sinceRefill)), sinceRefill |-> 0]

\* refillTokens, lines 25-36.
refillTokens(b) ==
    LET newTokens == NewTokens(b.sinceRefill)
    IN  IF newTokens > 0
        THEN [tokens |-> Min(CapacityMilli, b.tokens + newTokens), sinceRefill |-> 0]
        ELSE b

\* Variant: strict comparison.
AdmitsStrict(t, w) == t > w * Milli

\* Variant: any positive balance admits.
AdmitsAnyBalance(t, w) == t > 0

\* The check of line 41.
Admits(t, w) == t >= w * Milli

\* Variant: the default weight is deducted whatever the weight.
DeductDefault(t, w) == t - DefaultWeight * Milli

\* The deduction of line 42.
Deduct(t, w) == t - w * Milli

\* Variant: the delay is left in seconds.
WaitTimeSeconds(t, w) == ((w * Milli - t) \div RefillRate) \div Milli

\* waitTimeMs of lines 47-48: (tokensNeeded / refillRate) * 1000.
WaitTimeMs(t, w) == (w * Milli - t) \div RefillRate

\* Variant: the weight is deducted before the check, on the wait path too.
waitForTokenEager(b, w) ==
    LET r == refillTokens(b)
    IN  IF Admits(r.tokens, w)
        THEN [bucket |-> [r EXCEPT !.tokens = Deduct(r.tokens, w)],
              admitted |-> TRUE, waitTimeMs |-> 0, threw |-> FALSE]
        ELSE [bucket |-> [r EXCEPT !.tokens = Deduct(r.tokens, w)], admitted |-> FALSE,
              waitTimeMs |-> WaitTimeMs(r.tokens, w), threw |-> FALSE]

\* Variant: the first attempt does not refill.
waitForTokenNoRefill(b, w) ==
    IF Admits(b.tokens, w)
    THEN [bucket |-> [b EXCEPT !.tokens = Deduct(b.tokens, w)],
          admitted |-> TRUE, waitTimeMs |-> 0, threw |-> FALSE]
    ELSE [bucket |-> b, admitted |-> FALSE,
          waitTimeMs |-> WaitTimeMs(b.tokens, w), threw |-> FALSE]

\* Variant: a weight above capacity is rejected.
waitForTokenRejectsLarge(b, w) ==
    LET r == refillTokens(b)
    IN  IF w > Capacity
        THEN [bucket |-> r, admitted |-> FALSE, waitTimeMs |-> 0, threw |-> TRUE]
        ELSE IF Admits(r.tokens, w)
        THEN [bucket |-> [r EXCEPT !.tokens = Deduct(r.tokens, w)],
              admitted |-> TRUE, waitTimeMs |-> 0, threw |-> FALSE]
        ELSE [bucket |-> r, admitted |-> FALSE,
              waitTimeMs |-> WaitTimeMs(r.tokens, w), threw |-> FALSE]

\* One attempt of waitForToken, lines 38-50: the bucket it leaves, whether
\* the call completed, the delay of the timeout it set otherwise, and
\* whether it threw (the code has no path that does).
waitForToken(b, w) ==
    LET r == refillTokens(b)
    IN  IF Admits(r.tokens, w)
        THEN [bucket |-> [r EXCEPT !.tokens = Deduct(r.tokens, w)],
              admitted |-> TRUE, waitTimeMs |-> 0, threw |-> FALSE]
        ELSE [bucket |-> r, admitted |-> FALSE,
              waitTimeMs |-> WaitTimeMs(r.tokens, w), threw |-> FALSE]

\* refillTokens, lines 25-36, when the double sum of line 33 is off by e.
refillTokensRounded(b, e) ==
    LET newTokens == NewTokens(b.sinceRefill)
    IN  IF newTokens > 0
        THEN [tokens |-> Min(CapacityMilli, b.tokens + newTokens + e), sinceRefill |-> 0]
        ELSE b

\* The whole milliseconds after which a timeout set for waitTimeMs
\* (line 50) is due: not earlier than the delay, and at least 1, the
\* shortest delay setTimeout takes.
TimeoutDueMs(t, w) ==
    LET ms == WaitTimeMs(t, w)
    IN  Max(1, IF ms * RefillRate < w * Milli - t THEN ms + 1 ELSE ms)

\* One attempt of waitForToken, lines 38-50, with a rounded refill.
waitForTokenRounded(b, w, e) ==
    LET r == refillTokensRounded(b, e)
    IN  IF Admits(r.tokens, w)
        THEN [bucket |-> [r EXCEPT !.tokens = Deduct(r.tokens, w)],
              admitted |-> TRUE, waitTimeMs |-> 0, threw |-> FALSE]
        ELSE [bucket |-> r, admitted |-> FALSE,
              waitTimeMs |-> TimeoutDueMs(r.tokens, w), threw |-> FALSE]

\* The callback of lines 50-53: refillTokens, then waitForToken again.
timerCallback(b, w) == waitForToken(refillTokens(b), w)

\* Variant: the no-op limiter enforces the bucket after all.
noOpEnforces(b, w) == waitForToken(b, w)

\* NoOpRateLimiter.waitForToken, lines 62-65: resolves at once, whatever the
\* weight, and touches no bucket.
noOpWaitForToken(b, w) ==
    [bucket |-> b, admitted |-> TRUE, waitTimeMs |-> 0, threw |-> FALSE]

----------------------------------------------------------------------------
Bucket == [tokens |-> tokens, sinceRefill |-> sinceRefill]

TwinBucket == [tokens |-> twin.tokens, sinceRefill |-> twin.sinceRefill]

constructor(gap) ==
    [tokens |-> CapacityMilli, sinceRefill |-> gap, pc |-> "idle", timer |-> 0, gap |-> gap]

InitCore ==
    /\ tokens = CapacityMilli
    /\ sinceRefill = 0
    /\ pc = [c \in Callers |-> "idle"]
    /\ weight = [c \in Callers |-> 0]
    /\ timer = [c \in Callers |-> 0]
    /\ retries = [c \in Callers |-> 0]
    /\ accepting = TRUE
    /\ limiter \in Variants
    /\ slack = CapacityMilli
    /\ log = << >>
    /\ credited = 0

Init == InitCore /\ limiter = "RateLimiter" /\ twin = constructor(0)

\* The effect of one attempt (lines 38-54) of caller c with outcome out.
Settle(c, w, out) ==
    /\ tokens' = out.bucket.tokens
    /\ sinceRefill' = out.bucket.sinceRefill
    /\ pc' = [pc EXCEPT ![c] = IF out.admitted THEN "done" ELSE "waiting"]
    /\ weight' = [weight EXCEPT ![c] = w]
    /\ timer' = [timer EXCEPT ![c] = out.waitTimeMs]
    /\ slack' = IF out.admitted THEN slack - w * Milli ELSE slack

\* waitForToken(w) called by c: the synchronous body, lines 38-50.
CallCore(c, w) ==
    /\ pc[c] = "idle"
    /\ Settle(c, w, waitForToken(Bucket, w))

\* The timeout of c's call fires: the callback of lines 50-53.
FireCore(c) ==
    /\ pc[c] = "waiting"
    /\ timer[c] = 0
    /\ Settle(c, weight[c], timerCallback(Bucket, weight[c]))

\* The caller takes the resolved promise and may call again.
ReturnCore(c) ==
    /\ pc[c] = "done"
    /\ pc' = [pc EXCEPT ![c] = "idle"]
    /\ weight' = [weight EXCEPT ![c] = 0]
    /\ UNCHANGED <<tokens, sinceRefill, timer, slack>>

\* The clock advances by d ms.
TickCore(d) ==
    /\ sinceRefill' = Min(sinceRefill + d, FullAfterMs)
    /\ timer' = [c \in Callers |-> Max(timer[c] - d, 0)]
    /\ slack' = Min(CapacityMilli, slack + d * RefillRate)
    /\ UNCHANGED <<tokens, pc, weight>>

----------------------------------------------------------------------------
(* Concurrent use: any caller may call at any time.                        *)

Call(c, w) == accepting /\ CallCore(c, w) /\ UNCHANGED <<limiter, accepting, seqVars>>

Fire(c) == FireCore(c) /\ UNCHANGED <<limiter, accepting, seqVars>>

Return(c) == ReturnCore(c) /\ UNCHANGED <<limiter, accepting, seqVars>>

Tick(d) == TickCore(d) /\ UNCHANGED <<limiter, accepting, seqVars>>

\* The observer starts a new window [t, t+T] at the present time t.
StartWindow ==
    /\ slack # CapacityMilli
    /\ slack' = CapacityMilli
    /\ UNCHANGED <<coreVars, limiter, accepting, seqVars>>

\* The callers stop issuing new calls.
Close ==
    /\ accepting
    /\ accepting' = FALSE
    /\ UNCHANGED <<coreVars, limiter, slack, seqVars>>

Next ==
    \/ \E c \in Callers, w \in Weights : Call(c, w)
    \/ \E c \in Callers : Fire(c)
    \/ \E c \in Callers : Return(c)
    \/ \E d \in Steps : Tick(d)
    \/ StartWindow

Spec == Init /\ [][Next]_vars

(* The same callers with a clock that keeps advancing and timeouts that,   *)
(* once due, eventually fire.  The callers may stop calling at any time.   *)
LiveNext ==
    \/ \E c \in Callers, w \in LiveWeights : Call(c, w)
    \/ \E c \in Callers : Fire(c)
    \/ \E c \in Callers : Return(c)
    \/ \E d \in Steps : Tick(d)
    \/ Close

Fairness ==
    /\ WF_vars(\E d \in Steps : Tick(d))
    /\ \A c \in Callers : WF_vars(Fire(c))

FairSpec == Init /\ [][LiveNext]_vars /\ Fairness

----------------------------------------------------------------------------
(* Callers that hold an IRateLimiter of either variant, fixed at           *)
(* construction.                                                           *)

IfaceInit == InitCore /\ twin = constructor(0)

\* How the promise of one attempt ends for caller c.
IfaceSettle(c, w, out) ==
    /\ tokens' = out.bucket.tokens
    /\ sinceRefill' = out.bucket.sinceRefill
    /\ pc' = [pc EXCEPT ![c] = IF out.threw THEN "rejected"
                               ELSE IF out.admitted THEN "done" ELSE "waiting"]
    /\ weight' = [weight EXCEPT ![c] = w]
    /\ timer' = [timer EXCEPT ![c] = out.waitTimeMs]
    /\ UNCHANGED <<limiter, accepting, slack, seqVars>>

IfaceCall(c, w) ==
    /\ pc[c] = "idle"
    /\ IfaceSettle(c, w, IF limiter = "NoOpRateLimiter"
                         THEN noOpWaitForToken(Bucket, w)
                         ELSE waitForToken(Bucket, w))

IfaceFire(c) ==
    /\ pc[c] = "waiting"
    /\ timer[c] = 0
    /\ IfaceSettle(c, weight[c], timerCallback(Bucket, weight[c]))

IfaceNext ==
    \/ \E c \in Callers, w \in NoOpWeights : limiter = "NoOpRateLimiter" /\ IfaceCall(c, w)
    \/ \E c \in Callers, w \in Weights : limiter = "RateLimiter" /\ IfaceCall(c, w)
    \/ \E c \in Callers : IfaceFire(c)
    \/ \E c \in Callers : Return(c)
    \/ \E d \in Steps : Tick(d)

IfaceSpec == IfaceInit /\ [][IfaceNext]_vars

----------------------------------------------------------------------------
(* Sequential use: one call in flight at a time, MaxCalls calls in all,    *)
(* with a record of the calls issued and of the refill credited, and a     *)
(* second instance (constructed gap ms before the first) that is given    *)
(* the same calls at the same times.                                       *)

Credit(b) == refillTokens(b).tokens - b.tokens

TwinSettle(out) ==
    [twin EXCEPT !.tokens = out.bucket.tokens,
                 !.sinceRefill = out.bucket.sinceRefill,
                 !.pc = IF out.admitted THEN "done" ELSE "waiting",
                 !.timer = out.waitTimeMs]

SeqInit == InitCore /\ limiter = "RateLimiter" /\ \E gap \in Gaps : twin = constructor(gap)

SeqCall(c, w) ==
    /\ Len(log) < MaxCalls
    /\ \A o \in Callers : pc[o] = "idle"
    /\ CallCore(c, w)
    /\ retries' = [retries EXCEPT ![c] = 0]
    /\ log' = Append(log, w)
    /\ credited' = credited + Credit(Bucket)
    /\ twin' = TwinSettle(waitForToken(TwinBucket, w))
    /\ UNCHANGED <<limiter, accepting>>

SeqFire(c) ==
    /\ FireCore(c)
    /\ retries' = [retries EXCEPT ![c] = Min(@ + 1, MaxRetries)]
    /\ credited' = credited + Credit(Bucket) + Credit(refillTokens(Bucket))
    /\ twin' = IF twin.pc = "waiting" /\ twin.timer = 0
               THEN TwinSettle(timerCallback(TwinBucket, weight[c]))
               ELSE twin
    /\ UNCHANGED <<limiter, accepting, log>>

SeqReturn(c) ==
    /\ ReturnCore(c)
    /\ retries' = [retries EXCEPT ![c] = 0]
    /\ twin' = IF twin.pc = "done" THEN [twin EXCEPT !.pc = "idle"] ELSE twin
    /\ UNCHANGED <<limiter, accepting, log, credited>>

SeqTick(d) ==
    /\ TickCore(d)
    /\ twin' = [twin EXCEPT !.sinceRefill = Min(@ + d, FullAfterMs),
                            !.timer = Max(@ - d, 0)]
    /\ UNCHANGED <<limiter, accepting, retries, log, credited>>

SeqNext ==
    \/ \E c \in Callers, w \in SeqWeights : SeqCall(c, w)
    \/ \E c \in Callers : SeqFire(c)
    \/ \E c \in Callers : SeqReturn(c)
    \/ \E d \in SeqSteps : SeqTick(d)

SeqSpec == SeqInit /\ [][SeqNext]_vars

(* One caller at a time, calling again and again, with a clock that keeps  *)
(* advancing and timeouts that, once due, eventually fire.                 *)
OneCall(c, w) ==
    /\ \A o \in Callers : pc[o] = "idle"
    /\ CallCore(c, w)
    /\ retries' = [retries EXCEPT ![c] = 0]
    /\ UNCHANGED <<limiter, accepting, log, credited, twin>>

OneFire(c) ==
    /\ FireCore(c)
    /\ retries' = [retries EXCEPT ![c] = Min(@ + 1, MaxRetries)]
    /\ UNCHANGED <<limiter, accepting, log, credited, twin>>

OneReturn(c) ==
    /\ ReturnCore(c)
    /\ retries' = [retries EXCEPT ![c] = 0]
    /\ UNCHANGED <<limiter, accepting, log, credited, twin>>

OneNext ==
    \/ \E c \in Callers, w \in SeqWeights : OneCall(c, w)
    \/ \E c \in Callers : OneFire(c)
    \/ \E c \in Callers : OneReturn(c)
    \/ \E d \in SeqSteps : Tick(d)

OneFairness ==
    /\ WF_vars(\E d \in SeqSteps : Tick(d))
    /\ \A c \in Callers : WF_vars(OneFire(c))

FairOneSpec == Init /\ [][OneNext]_vars /\ OneFairness

(* One caller at a time, with a wall clock that may be set back: Date.now() *)
(* then reads up to MaxSkewMs earlier than lastRefill.  Pending timeouts    *)
(* are not affected.                                                        *)
Adjust(d) ==
    /\ sinceRefill - d >= 0 - MaxSkewMs
    /\ sinceRefill' = sinceRefill - d
    /\ UNCHANGED <<tokens, pc, weight, timer, limiter, accepting, slack, seqVars>>

SkewNext ==
    \/ \E c \in Callers, w \in Weights : OneCall(c, w)
    \/ \E c \in Callers : OneFire(c)
    \/ \E c \in Callers : OneReturn(c)
    \/ \E d \in Steps : Tick(d)
    \/ \E d \in Skews : Adjust(d)

SkewSpec == Init /\ [][SkewNext]_vars

(* One caller at a time, MaxCalls calls in all, in double arithmetic: each  *)
(* refill may round.  Timeouts fire no earlier than their delay.            *)
RoundCall(c, w, e) ==
    /\ Len(log) < MaxCalls
    /\ \A o \in Callers : pc[o] = "idle"
    /\ Settle(c, w, waitForTokenRounded(Bucket, w, e))
    /\ retries' = [retries EXCEPT ![c] = 0]
    /\ log' = Append(log, w)
    /\ UNCHANGED <<limiter, accepting, credited, twin>>

RoundFire(c, e) ==
    /\ pc[c] = "waiting"
    /\ timer[c] = 0
    /\ Settle(c, weight[c], waitForTokenRounded(Bucket, weight[c], e))
    /\ retries' = [retries EXCEPT ![c] = Min(@ + 1, MaxRetries)]
    /\ UNCHANGED <<limiter, accepting, log, credited, twin>>

RoundNext ==
    \/ \E c \in Callers, w \in RoundWeights, e \in Roundings : RoundCall(c, w, e)
    \/ \E c \in Callers, e \in Roundings : RoundFire(c, e)
    \/ \E c \in Callers : OneReturn(c)
    \/ \E d \in Steps : Tick(d)

RoundSpec == Init /\ [][RoundNext]_vars

(* Concurrent callers, MaxIssued calls in all, with a record of the order  *)
(* in which the calls were issued.                                          *)
OrderCall(c, w) ==
    /\ Len(log) < MaxIssued
    /\ CallCore(c, w)
    /\ log' = Append(log, w)
    /\ UNCHANGED <<limiter, accepting, retries, credited, twin>>

OrderNext ==
    \/ \E c \in Callers, w \in OrderWeights : OrderCall(c, w)
    \/ \E c \in Callers : Fire(c)
    \/ \E c \in Callers : Return(c)
    \/ \E d \in Steps : Tick(d)

OrderSpec == Init /\ [][OrderNext]_vars

(* The same callers passing weights that are not all positive.              *)
SignedNext ==
    \/ \E c \in Callers, w \in SignedWeights : OrderCall(c, w)
    \/ \E c \in Callers : Fire(c)
    \/ \E c \in Callers : Return(c)
    \/ \E d \in Steps : Tick(d)

SignedSpec == Init /\ [][SignedNext]_vars

----------------------------------------------------------------------------
(* Claims.                                                                 *)

\* What refillTokens makes available at the present clock reading.
Available == Min(CapacityMilli, tokens + sinceRefill * RefillRate)

\* This step is an attempt of caller c: its call, or its timeout firing.
Attempted(c) ==
    \/ pc[c] = "idle" /\ pc'[c] # "idle"
    \/ pc[c] = "waiting" /\ (pc'[c] = "done" \/ timer'[c] > timer[c])

Active == {c \in Callers : pc[c] # "idle"}

RECURSIVE Sum(_)
Sum(seq) == IF seq = << >> THEN 0 ELSE Head(seq) + Sum(Tail(seq))

\* The calls of log that have completed: all but one still waiting.
Completed ==
    IF \E c \in Callers : pc[c] = "waiting" THEN SubSeq(log, 1, Len(log) - 1) ELSE log

\* C1: in every reachable state, whatever the interleaving of calls with
\* positive weights and advances of the clock, 0 <= tokens <= capacity.
C1_TokensInBounds == 0 <= tokens /\ tokens <= CapacityMilli

C1_Witness ==
    /\ tokens = 0
    /\ \E c, o \in Callers : pc[c] = "done" /\ pc[o] = "waiting"

\* C2: over every interval [t, t+T] the weights admitted sum to at most
\* capacity + refillRate * T.  slack is capacity + refillRate * T minus the
\* weights admitted since the window started at t, cut back to capacity
\* whenever it exceeds it (the bound of the window that starts then); the
\* bound holds for every window as long as slack never goes below zero.
C2_ThroughputBound == slack >= 0

C2_Witness ==
    \E c \in Callers :
        /\ pc[c] = "done"
        /\ slack = CapacityMilli - weight[c] * Milli
        /\ tokens < slack

\* C3: with one caller at a time, a clock that keeps advancing and timeouts
\* that fire, every call with 0 < weight <= capacity that waits eventually
\* completes, having deducted its weight.
C3_SingleCompletes ==
    \A c \in Callers :
        (pc[c] = "waiting" /\ weight[c] <= Capacity)
            ~> (pc[c] = "done" /\ tokens <= CapacityMilli - weight[c] * Milli)

C3_Witness ==
    \E c \in Callers : pc[c] = "done" /\ retries[c] >= 1 /\ weight[c] = Capacity

\* C4: a call with weight greater than capacity that waits eventually
\* completes (acquire(150) on a fresh limiter after about 5000 ms).
C4_LargeCompletes ==
    \A c \in Callers :
        (pc[c] = "waiting" /\ weight[c] > Capacity) ~> (pc[c] = "done")

\* C5: with several calls in flight, each admission is decided against the
\* tokens available in that very step and deducted in it, one call per step,
\* so no two calls are admitted against the same tokens and tokens never
\* drops below zero.
C5_NoOverdraw ==
    [][ /\ tokens' >= 0
        /\ \A c \in Callers :
              (pc[c] # "done" /\ pc'[c] = "done") =>
                  /\ Available >= weight'[c] * Milli
                  /\ tokens' = Available - weight'[c] * Milli
                  /\ \A o \in Callers \ {c} : pc'[o] = pc[o] ]_vars

C5_Witness ==
    \E c, o \in Callers :
        /\ pc[c] = "done" /\ pc[o] = "waiting"
        /\ weight[o] <= Capacity /\ weight[c] + weight[o] > Capacity
        /\ timer[o] = 0 /\ tokens < weight[o] * Milli

\* C6 as stated: a waiting call with 0 < weight <= capacity eventually
\* completes even while other callers keep issuing new calls.
C6_NoStarvation ==
    \A c \in Callers :
        (pc[c] = "waiting" /\ weight[c] <= Capacity) ~> (pc[c] = "done")

\* C6 amended: a waiting call with 0 < weight <= capacity eventually
\* completes once the callers stop issuing new calls.
C6_CompletesOnceClosed ==
    \A c \in Callers :
        (pc[c] = "waiting" /\ weight[c] <= Capacity /\ ~accepting) ~> (pc[c] = "done")

C6_Witness ==
    /\ ~accepting
    /\ \E c, o \in Callers :
          /\ pc[c] = "done" /\ pc[o] = "waiting"
          /\ weight[o] <= Capacity /\ timer[o] = 0 /\ tokens < weight[o] * Milli

\* C7: whenever the refilled balance covers the weight, the attempt deducts
\* exactly the weight and completes in the same step with no timeout
\* scheduled; from a fresh limiter acquire(1) and then acquire(50) never
\* wait and leave 49 tokens plus the refill credited.
C7_FastPath ==
    /\ [][ \A c \in Callers :
              (Attempted(c) /\ Available >= weight'[c] * Milli) =>
                  /\ pc'[c] = "done"
                  /\ tokens' = Available - weight'[c] * Milli
                  /\ timer'[c] = 0 ]_vars
    /\ [](log \in {<<DefaultWeight>>, <<DefaultWeight, 50>>} =>
             \A c \in Callers : pc[c] # "waiting")
    /\ [](log = <<DefaultWeight, 50>> =>
             tokens = (Capacity - DefaultWeight - 50) * Milli + credited)

C7_Witness ==
    /\ log = <<DefaultWeight, 50>>
    /\ tokens = 49 * Milli
    /\ \E c \in Callers : pc[c] = "done" /\ retries[c] = 0

\* C8: whenever the refilled balance is short of the weight, the attempt
\* deducts nothing and sets a timeout of (weight - tokens) / refillRate
\* seconds, and an attempt of a waiting call happens only when its timeout
\* is due; acquire(10) right after acquire(100) drained a fresh bucket gets a
\* 1000 ms timeout and completes when it fires.
C8_WaitPath ==
    [][ \A c \in Callers :
          /\ (Attempted(c) /\ Available < weight'[c] * Milli) =>
                /\ pc'[c] = "waiting"
                /\ tokens' = Available
                /\ timer'[c] * RefillRate = weight'[c] * Milli - Available
          /\ (Attempted(c) /\ pc[c] = "waiting") => timer[c] = 0
          /\ (Attempted(c) /\ log = <<Capacity>> /\ sinceRefill = 0 /\ weight'[c] = 10) =>
                pc'[c] = "waiting" /\ timer'[c] = 1000
          /\ (Attempted(c) /\ log = <<Capacity, 10>> /\ pc[c] = "waiting") =>
                pc'[c] = "done" ]_vars

C8_Witness ==
    /\ log = <<Capacity, 10>>
    /\ tokens = 0
    /\ \E c \in Callers : pc[c] = "done" /\ retries[c] = 1

\* C9: for calls issued one after another, tokens equals the initial
\* capacity plus the refill credited (after clamping) minus the weights of
\* the completed calls; a call still waiting has deducted nothing.
C9_Conservation == tokens = CapacityMilli + credited - Sum(Completed) * Milli

C9_Witness ==
    /\ Len(log) >= 2
    /\ credited > 0
    /\ tokens < CapacityMilli
    /\ \E c \in Callers : pc[c] = "done" /\ retries[c] >= 1

\* C10: a second instance, given the same calls at the same clock readings,
\* holds the same tokens throughout and, from the first call on (from the
\* start when both were constructed at the same reading), the same
\* lastRefill, and it suspends and completes each call at the same times.
C10_TwinAgrees ==
    /\ twin.tokens = tokens
    /\ (twin.gap = 0 \/ log # << >>) => twin.sinceRefill = sinceRefill
    /\ Active = {} => twin.pc = "idle"
    /\ \A c \in Active : twin.pc = pc[c] /\ twin.timer = timer[c]

C10_Witness ==
    /\ twin.gap > 0
    /\ Len(log) >= 2
    /\ twin.tokens < CapacityMilli
    /\ \E c \in Callers : pc[c] = "done" /\ retries[c] >= 1

\* C11: behind the no-op limiter every call, whatever its weight (absent,
\* 0, 1, 1000000), completes in the step that issues it, sets no timeout and
\* changes no bucket state, so earlier calls have no effect on later ones.
C11_NoOpImmediate ==
    /\ [][ limiter = "NoOpRateLimiter" =>
              \A c \in Callers :
                  (pc[c] = "idle" /\ pc'[c] # "idle") =>
                      /\ pc'[c] = "done"
                      /\ UNCHANGED <<tokens, sinceRefill, timer>>
                      /\ \A o \in Callers \ {c} : pc'[o] = pc[o] ]_vars
    /\ [](limiter = "NoOpRateLimiter" =>
             /\ tokens = CapacityMilli
             /\ \A c \in Callers : pc[c] \in {"idle", "done"} /\ timer[c] = 0)

C11_Witness ==
    /\ limiter = "NoOpRateLimiter"
    /\ \E c, o \in Callers :
          pc[c] = "done" /\ weight[c] = 1000000 /\ pc[o] = "done" /\ weight[o] = 0

\* C12: with either variant a call is idle, completed or still waiting;
\* it never ends rejected.
C12_NeverRejects == \A c \in Callers : pc[c] \in {"idle", "waiting", "done"}

C12_Witness ==
    /\ limiter = "RateLimiter"
    /\ \E c, o \in Callers :
          pc[c] = "waiting" /\ weight[c] > Capacity /\ pc[o] = "done"

\* What the attempt of this step took from the bucket for caller c.
Granted(c) == IF pc'[c] = "done" THEN weight'[c] * Milli ELSE 0

\* C13: refillTokens at a reading later than lastRefill yields
\* min(capacity, tokens + elapsed / 1000 * refillRate) and lastRefill = now,
\* and every attempt, the first and each retry, starts from that balance.
C13_RefillStep ==
    /\ [][ \A c \in Callers :
              (Attempted(c) /\ sinceRefill > 0) =>
                  /\ tokens' + Granted(c) =
                         Min(CapacityMilli, tokens + sinceRefill * RefillRate)
                  /\ sinceRefill' = 0 ]_vars
    /\ [](sinceRefill > 0 =>
             refillTokens(Bucket) =
                 [tokens |-> Min(CapacityMilli, tokens + sinceRefill * RefillRate),
                  sinceRefill |-> 0])

C13_Witness ==
    \E c \in Callers :
        /\ pc[c] = "waiting"
        /\ retries[c] = 0
        /\ sinceRefill = 0
        /\ tokens > 0
        /\ timer[c] = WaitTimeMs(tokens, weight[c])

\* The bucket b read d ms later.
Elapse(b, d) == [b EXCEPT !.sinceRefill = @ + d]

C15_ClockNotAdvanced ==
    [][ \A c \in Callers :
          Attempted(c) =>
              /\ sinceRefill' <= Max(sinceRefill, 0)
              /\ sinceRefill <= 0 =>
                    /\ sinceRefill' = sinceRefill
                    /\ tokens' = tokens - Granted(c)
                    /\ pc'[c] = (IF tokens >= weight'[c] * Milli THEN "done" ELSE "waiting") ]_vars

C15_Witness ==
    \E c \in Callers :
        /\ sinceRefill < 0
        /\ pc[c] = "waiting"
        /\ retries[c] = 1
        /\ weight[c] <= Capacity
        /\ timer[c] = WaitTimeMs(tokens, weight[c])

\* C16: without contention a call of weight <= capacity suspends at most
\* once: while it waits, none of its timeouts has fired yet.
C16_SingleRetrySuffices ==
    \A c \in Callers :
        (pc[c] = "waiting" /\ weight[c] <= Capacity) => retries[c] = 0

\* C16, amended: such a call suspends at most twice; when the refill at the
\* re-check rounds below the weight, one more timeout of 1 ms completes it.
C16_SecondRetrySuffices ==
    \A c \in Callers :
        (pc[c] = "waiting" /\ weight[c] <= Capacity) => retries[c] <= 1

C16_Witness ==
    \E c \in Callers :
        pc[c] = "done" /\ weight[c] <= Capacity /\ retries[c] = 2

\* C17: once no further calls arrive, a batch of concurrent calls that each
\* weigh at most capacity is eventually completed in full: no call of the
\* batch is left waiting.
C17_BatchCompletes ==
    (~accepting /\ \A c \in Callers : weight[c] <= Capacity)
        ~> (\A c \in Callers : pc[c] # "waiting")

C17_Witness ==
    /\ ~accepting
    /\ \A c \in Callers : pc[c] = "done" /\ weight[c] = Capacity

\* C18: a suspended call holds no tokens and blocks nobody: every attempt
\* is decided on the refilled balance alone, whoever is waiting and for
\* however long, and takes from it only what it is granted; so a call
\* issued later can complete while an earlier one still waits.
C18_NoReservation ==
    [][ \A c \in Callers :
          Attempted(c) =>
              /\ pc'[c] = (IF Available >= weight'[c] * Milli THEN "done" ELSE "waiting")
              /\ tokens' = Available - Granted(c) ]_vars

C18_Witness ==
    /\ log = <<Capacity, Capacity, 10>>
    /\ \E c, o \in Callers :
          /\ pc[c] = "waiting" /\ weight[c] = Capacity
          /\ pc[o] = "done" /\ weight[o] = 10

\* C19: a call of weight <= 0 completes at once and leaves the balance
\* between 0 and capacity.
C19_NonPositiveInBounds ==
    \A c \in Callers :
        (pc[c] # "idle" /\ weight[c] <= 0) =>
            pc[c] = "done" /\ tokens >= 0 /\ tokens <= CapacityMilli
====
